---------------------------- MODULE Spec2Model ----------------------------
(***************************************************************************)
(* A model of node-two-captcha-ts: the Captcha result object               *)
(* (src/src/Captcha.ts) and the submit/poll control flow of                *)
(* TwoCaptchaClient (src/src/TwoCaptchaClient.ts).                         *)
(*                                                                         *)
(* JavaScript strings are sequences of one-character strings, so that      *)
(* split, includes and the regular expressions are computed.  Opaque       *)
(* literals that the code never inspects (messages, parameter values) are  *)
(* one-element sequences holding the whole literal.  JavaScript objects    *)
(* are functions whose DOMAIN is the set of own keys.                      *)
(***************************************************************************)
EXTENDS Integers, Sequences, FiniteSets, TLC

VARIABLES
    keyIsString,     \* typeof this.key === 'string'
    timeout,         \* this.timeout (ms)
    polling,         \* this.polling (ms)
    throwErrors,     \* this.throwErrors
    method,          \* which public method the call is: decode, decodeRecaptchaV2, ...
    options,         \* the options object the caller passed
    pc,              \* where the call is
    startedAt,       \* the call's startedAt local
    now,             \* Date.now()
    decodedCaptcha,  \* the call's decodedCaptcha local: a Captcha, or NoCaptcha
    uploadRes,       \* the body the service answered the upload with
    statusRes,       \* the body the service answered the last status query with
    log,             \* the messages console.warn received, in order
    error,           \* the message of the Error the call raised, or NoMessage
    trace,           \* the requests sent and the sleeps started, in order
    solved,          \* the service has a solution for the challenge
    reported,        \* a status query has been answered with the solution
    unitArg,         \* unit specification: the string a function is applied to
    unitOp,          \* unit specification: the function applied
    unitRet,         \* unit specification: what it returned
    cpc,             \* concurrent calls: where each call is
    cmethod,         \* concurrent calls: which public method each call is
    frames,          \* concurrent calls: the locals startedAt and decodedCaptcha
    began,           \* concurrent calls: Date.now() when each call was made
    wakeAt,          \* concurrent calls: when the timer of each sleeping call is due
    sent,            \* concurrent calls: the requests each call has sent, in order
    answers,         \* concurrent calls: the body each call's upload was answered with
    issued,          \* the service: how many identifiers it has handed out
    solvedIds        \* the service: the identifiers whose challenge it has solved

vars == <<keyIsString, timeout, polling, throwErrors, method, options, pc,
          startedAt, now, decodedCaptcha, uploadRes, statusRes, log, error,
          trace, solved, reported, unitArg, unitOp, unitRet,
          cpc, cmethod, frames, began, wakeAt, sent, answers, issued, solvedIds>>

clientVars == <<keyIsString, timeout, polling, throwErrors>>
callVars == <<method, options, pc, startedAt, now, decodedCaptcha, uploadRes,
              statusRes, log, error, trace, solved, reported>>
unitVars == <<unitArg, unitOp, unitRet>>
concVars == <<cpc, cmethod, frames, began, wakeAt, sent, answers, issued, solvedIds>>
\* what a single call of the first specification has, apart from clock and console
soloVars == <<method, options, pc, startedAt, decodedCaptcha, uploadRes, statusRes,
              error, trace, solved, reported>>

---------------------------------------------------------------------------
(* Bounds of the model.                                                    *)

\* Longest text, in chunks of TextChunks, given to Captcha.coordinates().
MaxChunks == 4
\* Longest response body, in chunks of BodyChunks, given to _validateResponse.
MaxBodyChunks == 3
\* The clock moves in steps of Tick ms beyond what the code asks for.
Tick == 2500
\* Most ticks one await (an HTTP request, a timer, a file read) runs late.
MaxDelay == 1
\* Date.now() when the call starts.
ClockAtStart == 7000
\* The timeouts and polling intervals clients are constructed with.
ShortTimeout == 4000
LongTimeout == 20000
SlowPolling == 12000
\* Cap on the status queries of one call (never reached by the code itself:
\* a call issues at most LongTimeout \div DefaultPolling of them).
MaxQueries == 6

---------------------------------------------------------------------------
(* Program constants.                                                      *)

\* constructor: polling = 5000
DefaultPolling == 5000
\* decodeRecaptchaV2/V3, decodeHCaptcha: Math.max(this.polling, 10000)
MinInteractiveSleep == 10000
\* _request: soft_id: 2386
SoftId == 2386

---------------------------------------------------------------------------
(* JavaScript values.                                                      *)

\* undefined: what destructuring a missing array element or reading a missing
\* property yields.  No string of the model equals it.
Undefined == <<"undefined">>

\* An opaque literal.
Lit(s) == <<s>>

EmptyString == <<>>
NoMessage == <<>>

Digits == {"0", "1", "2", "3", "4", "5", "6", "7", "8", "9"}

DigitValue == ("0" :> 0) @@ ("1" :> 1) @@ ("2" :> 2) @@ ("3" :> 3) @@ ("4" :> 4)
           @@ ("5" :> 5) @@ ("6" :> 6) @@ ("7" :> 7) @@ ("8" :> 8) @@ ("9" :> 9)

\* Number("<digits>")
RECURSIVE NumberAcc(_, _)
NumberAcc(s, acc) ==
    IF s = <<>> THEN acc
    ELSE NumberAcc(Tail(s), acc * 10 + DigitValue[Head(s)])

Number(s) == NumberAcc(s, 0)

\* s.indexOf(c, from), 1-based; 0 when there is none
IndexOf(s, c, from) ==
    LET hits == {i \in from..Len(s) : s[i] = c}
    IN  IF hits = {} THEN 0 ELSE CHOOSE i \in hits : \A j \in hits : i <= j

\* s.includes(sub)
Includes(s, sub) ==
    \E i \in 1..(Len(s) + 1) :
        /\ i + Len(sub) - 1 <= Len(s)
        /\ SubSeq(s, i, i + Len(sub) - 1) = sub

\* s.split(sep) for a one-character separator
RECURSIVE SplitAll(_, _)
SplitAll(s, sep) ==
    LET i == IndexOf(s, sep, 1)
    IN  IF i = 0 THEN <<s>>
        ELSE <<SubSeq(s, 1, i - 1)>> \o SplitAll(SubSeq(s, i + 1, Len(s)), sep)

\* s.split(sep, limit)
Split(s, sep, limit) ==
    LET all == SplitAll(s, sep)
    IN  IF Len(all) <= limit THEN all ELSE SubSeq(all, 1, limit)

\* const [, second] = array
SecondOf(array) == IF Len(array) >= 2 THEN array[2] ELSE Undefined

\* object[key], undefined when the object has no such key
Get(object, k) == IF k \in DOMAIN object THEN object[k] ELSE Undefined

\* { ...a, ...b }
Spread(a, b) ==
    [k \in DOMAIN a \cup DOMAIN b |-> IF k \in DOMAIN b THEN b[k] ELSE a[k]]

\* delete object[key], for each key of keys
Delete(object, keys) == [k \in DOMAIN object \ keys |-> object[k]]

EmptyObject == [k \in {} |-> Undefined]

---------------------------------------------------------------------------
(* Captcha.ts                                                              *)

\* new Captcha()
NewCaptcha == [id |-> EmptyString, text |-> EmptyString, apiResponse |-> EmptyString]

\* the decodedCaptcha local before _upload returns
NoCaptcha == [id |-> Undefined, text |-> Undefined, apiResponse |-> Undefined]

\* The end of the run of digits that starts at i (i - 1 when s[i] is no digit).
RECURSIVE DigitsEnd(_, _)
DigitsEnd(s, i) ==
    IF i <= Len(s) /\ s[i] \in Digits THEN DigitsEnd(s, i + 1) ELSE i - 1

\* /x=([0-9]+),y=([0-9]+)/ tried at position p: the groups and the end of the
\* match, or ok = FALSE.  [0-9]+ is greedy, and giving digits back never helps:
\* the character after a shorter run is a digit, not the ',' or the end.
MatchAt(s, p) ==
    LET xe == DigitsEnd(s, p + 2)
        ye == DigitsEnd(s, xe + 4)
        ok == /\ p + 1 <= Len(s)
              /\ s[p] = "x" /\ s[p + 1] = "="
              /\ xe >= p + 2
              /\ xe + 3 <= Len(s)
              /\ s[xe + 1] = "," /\ s[xe + 2] = "y" /\ s[xe + 3] = "="
              /\ ye >= xe + 4
    IN  IF ok
        THEN [ok |-> TRUE, from |-> p, to |-> ye,
              g1 |-> SubSeq(s, p + 2, xe), g2 |-> SubSeq(s, xe + 4, ye)]
        ELSE [ok |-> FALSE, from |-> p, to |-> p, g1 |-> <<>>, g2 |-> <<>>]

\* regex.exec(s) with lastIndex = from - 1: the leftmost match at or after from
RECURSIVE Exec(_, _)
Exec(s, from) ==
    IF from > Len(s) THEN MatchAt(s, from)
    ELSE LET m == MatchAt(s, from)
         IN  IF m.ok THEN m ELSE Exec(s, from + 1)

\* s.match(/x=([0-9]+),y=([0-9]+)/) without the g flag: the first match only
MatchFirstOnly(s, from) ==
    LET m == Exec(s, from)
    IN  IF m.ok THEN <<SubSeq(s, m.from, m.to)>> ELSE <<>>

\* s.match(/x=([0-9]+),y=([0-9]+)/g): every match, each search starting where
\* the last match ended; <<>> stands for null
RECURSIVE MatchGlobal(_, _)
MatchGlobal(s, from) ==
    LET m == Exec(s, from)
    IN  IF m.ok THEN <<SubSeq(s, m.from, m.to)>> \o MatchGlobal(s, m.to + 1)
        ELSE <<>>

\* coordinateParser
coordinateParser(text) ==
    LET match == Exec(text, 1)
    IN  IF match.ok THEN <<Number(match.g1), Number(match.g2)>> ELSE <<>>

\* Captcha.coordinates()
coordinates(text) ==
    LET matches == MatchGlobal(text, 1)
    IN  IF matches # <<>>
        THEN [i \in 1..Len(matches) |-> coordinateParser(matches[i])]
        ELSE <<>>

\* s.replace(pattern, replacement) with the g flag: every occurrence
RECURSIVE ReplaceEvery(_, _, _)
ReplaceEvery(s, pattern, replacement) ==
    LET hits == {i \in 1..Len(s) : /\ i + Len(pattern) - 1 <= Len(s)
                                   /\ SubSeq(s, i, i + Len(pattern) - 1) = pattern}
    IN  IF hits = {} THEN s
        ELSE LET at == CHOOSE i \in hits : \A j \in hits : i <= j
             IN  SubSeq(s, 1, at - 1) \o replacement
                     \o ReplaceEvery(SubSeq(s, at + Len(pattern), Len(s)),
                                     pattern, replacement)

\* s.replace(pattern, replacement) for a string pattern: the first occurrence only
Replace(s, pattern, replacement) ==
    LET hits == {i \in 1..Len(s) : /\ i + Len(pattern) - 1 <= Len(s)
                                   /\ SubSeq(s, i, i + Len(pattern) - 1) = pattern}
    IN  IF hits = {} THEN s
        ELSE LET at == CHOOSE i \in hits : \A j \in hits : i <= j
             IN  SubSeq(s, 1, at - 1) \o replacement
                     \o SubSeq(s, at + Len(pattern), Len(s))

\* 'click:'
ClickPrefix == <<"c", "l", "i", "c", "k", ":">>

\* s.match(/\d+/g): every run of digits, each as long as it can be; <<>> stands
\* for null
RECURSIVE MatchDigitsGlobal(_, _)
MatchDigitsGlobal(s, from) ==
    IF from > Len(s) THEN <<>>
    ELSE IF s[from] \in Digits
    THEN LET to == DigitsEnd(s, from)
         IN  <<SubSeq(s, from, to)>> \o MatchDigitsGlobal(s, to + 1)
    ELSE MatchDigitsGlobal(s, from + 1)

\* Captcha.indexes()
indexes(text) ==
    LET matches == MatchDigitsGlobal(Replace(text, ClickPrefix, EmptyString), 1)
    IN  IF matches # <<>>
        THEN [i \in 1..Len(matches) |-> Number(matches[i])]
        ELSE <<>>

---------------------------------------------------------------------------
(* constants.ts (the error table) and the messages of the client.          *)

CAPCHA_NOT_READY == <<"C", "A", "P", "C", "H", "A", "_", "N", "O", "T", "_", "R", "E", "A", "D", "Y">>
ERROR_ZERO_BALANCE == <<"E", "R", "R", "O", "R", "_", "Z", "E", "R", "O", "_", "B", "A", "L", "A", "N", "C", "E">>
ERROR_CAPTCHA_UNSOLVABLE == <<"E", "R", "R", "O", "R", "_", "C", "A", "P", "T", "C", "H", "A", "_", "U", "N", "S", "O", "L", "V", "A", "B", "L", "E">>

\* the message _throwError never surfaces
NotSolvedYet == Lit("Your captcha is not solved yet.")
ZeroBalance == Lit("You don't have funds on your account.")
Unsolvable == Lit("We are unable to solve your captcha.")

\* constants.errors: error code -> message
errors ==
    (CAPCHA_NOT_READY :> NotSolvedYet)
    @@ (ERROR_ZERO_BALANCE :> ZeroBalance)
    @@ (ERROR_CAPTCHA_UNSOLVABLE :> Unsolvable)

\* body.toString().includes('ERROR')
ErrorMarker == <<"E", "R", "R", "O", "R">>

\* `Unknown 2Captcha error: ${body}`
UnknownError(body) == <<"Unknown 2Captcha error: ">> \o body

KeyMustBeString == Lit("2Captcha key must be a string")
CaptchaTimeout == Lit("Captcha timeout")
MissingGooglekey == Lit("Missing googlekey parameter")
MissingPageurl == Lit("Missing pageurl parameter")
MissingSitekey == Lit("Missing sitekey parameter")
NoImageData == Lit("No image data received")
\* readFile rejected
ReadFileFailed == Lit("ENOENT: no such file or directory")
\* HTTPRequest.openDataURL threw
FetchFailed == Lit("Failed to fetch data from URL")

---------------------------------------------------------------------------
(* Surfacing errors.  What a piece of code did is an effect: whether it    *)
(* raised (and what), which warnings it logged, and what it returned when  *)
(* it did not raise.                                                       *)

NoEffect == [raised |-> FALSE, message |-> NoMessage, warn |-> <<>>, ret |-> TRUE]

\* first, and nothing after it
ThenNothing(first, second) == first

\* first, and then (unless first raised) second
Then(first, second) ==
    IF first.raised THEN first
    ELSE [second EXCEPT !.warn = first.warn \o second.warn]

\* _throwError without the exemption of the not-solved-yet message
_throwErrorNoExemption(message) ==
    IF throwErrors
    THEN [raised |-> TRUE, message |-> message, warn |-> <<>>, ret |-> FALSE]
    ELSE [raised |-> FALSE, message |-> NoMessage, warn |-> <<message>>, ret |-> FALSE]

\* _throwError that logs whatever the mode
_throwErrorLogOnly(message) ==
    IF message = NotSolvedYet
    THEN [raised |-> FALSE, message |-> NoMessage, warn |-> <<>>, ret |-> FALSE]
    ELSE [raised |-> FALSE, message |-> NoMessage, warn |-> <<message>>, ret |-> FALSE]

\* _throwError(message)
_throwError(message) ==
    IF message = NotSolvedYet
    THEN [raised |-> FALSE, message |-> NoMessage, warn |-> <<>>, ret |-> FALSE]
    ELSE IF throwErrors
    THEN [raised |-> TRUE, message |-> message, warn |-> <<>>, ret |-> FALSE]
    ELSE [raised |-> FALSE, message |-> NoMessage, warn |-> <<message>>, ret |-> FALSE]

\* _validateResponse that looks the body up in the table only
_validateResponseTableOnly(body) ==
    LET tableEntry == Get(errors, body)
    IN  IF tableEntry # Undefined /\ tableEntry # EmptyString
        THEN _throwError(tableEntry)
        ELSE NoEffect

\* _validateResponse(body): the effect, ret being the boolean returned
_validateResponse(body) ==
    LET tableEntry == Get(errors, body)
    IN  IF tableEntry # Undefined /\ tableEntry # EmptyString
        THEN _throwError(tableEntry)
        ELSE IF body = EmptyString \/ Includes(body, ErrorMarker)
        THEN _throwError(UnknownError(body))
        ELSE NoEffect

---------------------------------------------------------------------------
(* The caller's inputs and the environment's answers.                      *)

Base64Alphabet ==
    <<"A", "B", "C", "D", "E", "F", "G", "H", "I", "J", "K", "L", "M", "N", "O", "P",
      "Q", "R", "S", "T", "U", "V", "W", "X", "Y", "Z", "a", "b", "c", "d", "e", "f",
      "g", "h", "i", "j", "k", "l", "m", "n", "o", "p", "q", "r", "s", "t", "u", "v",
      "w", "x", "y", "z", "0", "1", "2", "3", "4", "5", "6", "7", "8", "9", "+", "/">>

Sextet(n) == Base64Alphabet[(n % 64) + 1]

\* buffer.toString('base64')
RECURSIVE ToBase64(_)
ToBase64(bytes) ==
    IF Len(bytes) = 0 THEN <<>>
    ELSE IF Len(bytes) = 1
    THEN LET n == bytes[1] * 16
         IN  <<Sextet(n \div 64), Sextet(n), "=", "=">>
    ELSE IF Len(bytes) = 2
    THEN LET n == (bytes[1] * 256 + bytes[2]) * 4
         IN  <<Sextet(n \div 4096), Sextet(n \div 64), Sextet(n), "=">>
    ELSE LET n == bytes[1] * 65536 + bytes[2] * 256 + bytes[3]
         IN  <<Sextet(n \div 262144), Sextet(n \div 4096), Sextet(n \div 64), Sextet(n)>>
             \o ToBase64(SubSeq(bytes, 4, Len(bytes)))

\* What a caller passes.
ImageBase64 == <<"T", "W", "F", "u">>
ImageBytes == <<77, 97>>
ImagePath == Lit("captcha.png")
ImageUrl == Lit("https://example.org/captcha.png")
Googlekey == Lit("6Le-wvkS")
Sitekey == Lit("10000000-ffff")
Pageurl == Lit("https://example.org/login")

\* What the service answers.
OkWithId == <<"O", "K", "|", "7", "1">>
OkWithEmptyField == <<"O", "K", "|">>
OkWithAnswer == <<"O", "K", "|", "a", "b">>
UnknownErrorBody == <<"E", "R", "R", "O", "R", "_", "X">>

\* the bodies an upload is answered with
UploadBodies == <<OkWithId, ERROR_ZERO_BALANCE, EmptyString>>
\* the bodies a status query is answered with while the challenge is unsolved
UnsolvedBodies ==
    <<CAPCHA_NOT_READY, OkWithEmptyField, ERROR_CAPTCHA_UNSOLVABLE, UnknownErrorBody>>
\* and once it is solved
SolvedBodies == <<OkWithAnswer>>

\* how late an await runs
Delays == {d * Tick : d \in 0..MaxDelay}

Methods == {"decode", "decodeRecaptchaV2", "decodeRecaptchaV3", "decodeHCaptcha"}

\* this.key
ClientKey == IF keyIsString THEN <<"k", "e", "y">> ELSE Undefined

\* the options decode() is called with
DecodeOptions ==
    << [base64 |-> ImageBase64],
       [buffer |-> ImageBytes],
       [path |-> ImagePath],
       [url |-> ImageUrl],
       [base64 |-> ImageBase64, method |-> Lit("multipart")],
       [base64 |-> ImageBase64, key |-> Lit("another key"), soft_id |-> 1],
       EmptyObject >>

\* the options decodeRecaptchaV2() and decodeRecaptchaV3() are called with
RecaptchaOptions ==
    << [googlekey |-> Googlekey, pageurl |-> Pageurl],
       [googlekey |-> Googlekey, pageurl |-> Pageurl, invisible |-> TRUE, enterprise |-> TRUE],
       [pageurl |-> Pageurl],
       [googlekey |-> EmptyString] >>

\* the options decodeHCaptcha() is called with
HCaptchaOptions ==
    << [sitekey |-> Sitekey, pageurl |-> Pageurl],
       [sitekey |-> Sitekey, pageurl |-> Pageurl, invisible |-> TRUE],
       [pageurl |-> Pageurl],
       [sitekey |-> EmptyString] >>

OptionsOf(m) ==
    IF m = "decode" THEN DecodeOptions
    ELSE IF m = "decodeHCaptcha" THEN HCaptchaOptions
    ELSE RecaptchaOptions

---------------------------------------------------------------------------
(* TwoCaptchaClient.ts                                                     *)

\* a test that takes only undefined for missing
FalsyUndefinedOnly(value) == value = Undefined

\* !value, for a string or undefined
Falsy(value) == value = Undefined \/ value = EmptyString

\* (options[k] ?? false) ? 1 : 0
Flag(object, k) == IF k \in DOMAIN object /\ object[k] = TRUE THEN 1 ELSE 0

\* a request in which the fields of the caller's payload win
RequestEventPayloadLast(action, verb, payload) ==
    [op |-> "request", action |-> action, verb |-> verb, ms |-> 0,
     payload |-> Spread([key |-> ClientKey, soft_id |-> SoftId], payload)]

\* an HTTP request as HTTPRequest.request receives it from _request
RequestEvent(action, verb, payload) ==
    [op |-> "request", action |-> action, verb |-> verb, ms |-> 0,
     payload |-> Spread(payload, [key |-> ClientKey, soft_id |-> SoftId])]

\* a timer as _sleep starts it
SleepEvent(ms) ==
    [op |-> "sleep", action |-> "", verb |-> "", ms |-> ms, payload |-> EmptyObject]

\* _upload, up to the request it sends: the request's payload
UploadArgs(opts) ==
    LET base64 == Get(opts, "base64")
        args0 == IF base64 # Undefined /\ base64 # EmptyString
                 THEN [body |-> base64] ELSE EmptyObject
        args1 == Spread(args0,
                        [method |-> IF Get(opts, "method") = Undefined
                                    THEN Lit("base64") ELSE opts.method])
        restOptions == Delete(opts, {"buffer"})
    IN  Delete(Spread(args1, restOptions), {"base64", "buffer", "path", "url"})

\* the sleep of the interactive methods without the floor of 10 seconds
SleepDurationNoFloor(m) == polling

\* the argument of _sleep in the polling loop of method m
SleepDuration(m) ==
    IF m = "decode" THEN polling
    ELSE IF polling >= MinInteractiveSleep THEN polling ELSE MinInteractiveSleep

\* a timer that fires at once
SleepElapsedNone(ms, late) == 0

\* _sleep(ms): the time that has passed when the timer fires, late ms late
SleepElapsed(ms, late) == ms + late

\* a deadline test that never fires
DeadlineExceededNever(at) == FALSE

\* a deadline test that also fires when exactly timeout has passed
DeadlineReached(at) == at - startedAt >= timeout

\* Date.now() - startedAt > this.timeout, for the startedAt of a call
Expired(at, started) == at - started > timeout

\* Date.now() - startedAt > this.timeout
DeadlineExceeded(at) == Expired(at, startedAt)

\* the status queries sent so far
StatusQueries == SelectSeq(trace, LAMBDA e : e.op = "request" /\ e.action = "res")
\* the uploads sent so far
Uploads == SelectSeq(trace, LAMBDA e : e.op = "request" /\ e.action = "in")

Done == pc \in {"returned", "raised"}

\* the call raises: nothing after the throw runs
Raise(effect) ==
    /\ pc' = "raised"
    /\ error' = effect.message
    /\ log' = log \o effect.warn

\* _upload(opts) starts: the upload request is sent
SendUpload(opts) ==
    /\ trace' = Append(trace, RequestEvent("in", "post", UploadArgs(opts)))
    /\ pc' = "uploading"

\* the while test of the polling loop on captcha: another round starts with a
\* sleep, or the call returns captcha
LoopOrReturn(captcha, events) ==
    /\ decodedCaptcha' = captcha
    /\ IF captcha.text = EmptyString
       THEN /\ trace' = events \o <<SleepEvent(SleepDuration(method))>>
            /\ pc' = "sleeping"
       ELSE /\ trace' = events
            /\ pc' = "returned"

\* which branch of _loadCaptcha the options take
ImageSource(opts) ==
    IF ~Falsy(Get(opts, "base64")) THEN "base64"
    ELSE IF "buffer" \in DOMAIN opts THEN "buffer"
    ELSE IF ~Falsy(Get(opts, "path")) THEN "path"
    ELSE IF ~Falsy(Get(opts, "url")) THEN "url"
    ELSE "none"

\* _loadCaptcha(opts): the effect and the base64 string returned; ioOk is
\* whether readFile or openDataURL succeeded, bytes what it read
_loadCaptcha(opts, ioOk, bytes) ==
    LET src == ImageSource(opts)
    IN  IF src = "base64" THEN [effect |-> NoEffect, base64 |-> opts.base64]
        ELSE IF src = "buffer" THEN [effect |-> NoEffect, base64 |-> ToBase64(opts.buffer)]
        ELSE IF src = "path"
        THEN IF ioOk THEN [effect |-> NoEffect, base64 |-> ToBase64(bytes)]
             ELSE [effect |-> [raised |-> TRUE, message |-> ReadFileFailed,
                               warn |-> <<>>, ret |-> FALSE],
                   base64 |-> Undefined]
        ELSE IF src = "url"
        THEN IF ioOk THEN [effect |-> NoEffect, base64 |-> ToBase64(bytes)]
             ELSE [effect |-> [raised |-> TRUE, message |-> FetchFailed,
                               warn |-> <<>>, ret |-> FALSE],
                   base64 |-> Undefined]
        ELSE [effect |-> _throwError(NoImageData), base64 |-> EmptyString]

\* captcha that takes the id, like _upload, from the response
captchaIdFromResponse(captchaId, res) ==
    [id |-> SecondOf(Split(res, "|", 2)), apiResponse |-> res,
     text |-> SecondOf(Split(res, "|", 2))]

\* captcha that takes the first field of the response as the text
captchaFirstField(captchaId, res) ==
    [id |-> captchaId, apiResponse |-> res, text |-> Split(res, "|", 2)[1]]

\* captcha(captchaId), from the response res of its request on
captcha(captchaId, res) ==
    [id |-> captchaId, apiResponse |-> res, text |-> SecondOf(Split(res, "|", 2))]

\* _upload that takes the last field of the response as the identifier
UploadedCaptchaLastField(res) ==
    [NewCaptcha EXCEPT !.id = LET all == SplitAll(res, "|") IN all[Len(all)]]

\* _upload, from the response res of its request on: the Captcha returned
UploadedCaptcha(res) ==
    [NewCaptcha EXCEPT !.id = SecondOf(Split(res, "|", 2))]

\* decode(options), up to the await of _loadCaptcha
Decode ==
    /\ pc = "ready" /\ method = "decode"
    /\ startedAt' = now
    /\ LET e == IF ~keyIsString THEN _throwError(KeyMustBeString) ELSE NoEffect
       IN  IF e.raised THEN Raise(e)
           ELSE /\ pc' = "loading"
                /\ log' = log \o e.warn
                /\ error' = error
    /\ UNCHANGED <<clientVars, method, options, now, decodedCaptcha, uploadRes, statusRes,
                   trace, solved, reported, unitVars, concVars>>

\* decode(options): _loadCaptcha returns and _upload sends its request
LoadCaptcha ==
    /\ pc = "loading"
    /\ \E d \in Delays, ioOk \in BOOLEAN :
        LET inMemory == ImageSource(options) \in {"base64", "buffer", "none"}
            loaded == _loadCaptcha(options, ioOk, ImageBytes)
        IN  /\ inMemory => (d = 0 /\ ioOk)
            /\ now' = now + d
            /\ IF loaded.effect.raised
               THEN Raise(loaded.effect) /\ trace' = trace
               ELSE /\ SendUpload(Spread(options, [base64 |-> loaded.base64]))
                    /\ log' = log \o loaded.effect.warn
                    /\ error' = error
    /\ UNCHANGED <<clientVars, method, options, startedAt, decodedCaptcha,
                   uploadRes, statusRes, solved, reported, unitVars, concVars>>

\* the two checks of missing parameters of an interactive method
MissingChecks(first, firstMessage) ==
    Then(IF Falsy(Get(options, first)) THEN _throwError(firstMessage) ELSE NoEffect,
         IF Falsy(Get(options, "pageurl")) THEN _throwError(MissingPageurl) ELSE NoEffect)

\* an interactive method, up to the request _upload sends
StartInteractive(checks, uploadOptions) ==
    /\ pc = "ready"
    /\ startedAt' = now
    /\ IF checks.raised THEN Raise(checks) /\ trace' = trace
       ELSE /\ SendUpload(uploadOptions)
            /\ log' = log \o checks.warn
            /\ error' = error
    /\ UNCHANGED <<clientVars, method, options, now, decodedCaptcha, uploadRes, statusRes,
                   solved, reported, unitVars, concVars>>

\* decodeRecaptchaV2(options), up to the request _upload sends
DecodeRecaptchaV2 ==
    /\ method = "decodeRecaptchaV2"
    /\ StartInteractive(
           MissingChecks("googlekey", MissingGooglekey),
           [method |-> Lit("userrecaptcha"),
            googlekey |-> Get(options, "googlekey"),
            pageurl |-> Get(options, "pageurl"),
            invisible |-> Flag(options, "invisible"),
            enterprise |-> Flag(options, "enterprise")])

\* decodeRecaptchaV3(options), up to the request _upload sends
DecodeRecaptchaV3 ==
    /\ method = "decodeRecaptchaV3"
    /\ StartInteractive(
           MissingChecks("googlekey", MissingGooglekey),
           [method |-> Lit("userrecaptcha"),
            googlekey |-> Get(options, "googlekey"),
            pageurl |-> Get(options, "pageurl"),
            version |-> Lit("v3"),
            action |-> IF Get(options, "action") = Undefined
                       THEN EmptyString ELSE options.action,
            enterprise |-> Flag(options, "enterprise")])

\* decodeHCaptcha(options), up to the request _upload sends
DecodeHCaptcha ==
    /\ method = "decodeHCaptcha"
    /\ StartInteractive(
           MissingChecks("sitekey", MissingSitekey),
           [method |-> Lit("hcaptcha"),
            sitekey |-> Get(options, "sitekey"),
            pageurl |-> Get(options, "pageurl"),
            invisible |-> Flag(options, "invisible")])

\* _upload resumes with the service's answer; the polling loop is entered
UploadResponse ==
    /\ pc = "uploading"
    /\ \E i \in 1..Len(UploadBodies), d \in Delays :
      LET body == UploadBodies[i] IN
        /\ now' = now + d
        /\ uploadRes' = body
        /\ LET e == Then(_validateResponse(body), _validateResponse(body))
           IN  IF e.raised
               THEN Raise(e) /\ UNCHANGED <<decodedCaptcha, trace>>
               ELSE /\ log' = log \o e.warn
                    /\ error' = error
                    /\ LoopOrReturn(UploadedCaptcha(body), trace)
    /\ UNCHANGED <<clientVars, method, options, startedAt, statusRes, solved,
                   reported, unitVars, concVars>>

\* _sleep resolves: the deadline test, then the timeout or the next status query
Wake ==
    /\ pc = "sleeping"
    /\ Len(StatusQueries) < MaxQueries
    /\ \E d \in Delays :
        /\ now' = now + SleepElapsed(trace[Len(trace)].ms, d)
        /\ IF DeadlineExceeded(now')
           THEN LET e == _throwError(CaptchaTimeout)
                IN  /\ trace' = trace
                    /\ IF e.raised THEN Raise(e)
                       ELSE /\ log' = log \o e.warn
                            /\ error' = error
                            /\ pc' = "returned"
           ELSE /\ trace' = Append(trace,
                                   RequestEvent("res", "get",
                                                [id |-> decodedCaptcha.id,
                                                 action |-> Lit("get")]))
                /\ pc' = "querying"
                /\ UNCHANGED <<log, error>>
    /\ UNCHANGED <<clientVars, method, options, startedAt, decodedCaptcha,
                   uploadRes, statusRes, solved, reported, unitVars, concVars>>

\* the bodies the service may answer a status query with now
StatusBodies == IF solved THEN SolvedBodies ELSE UnsolvedBodies

\* captcha(id) resumes with the service's answer; the loop test follows
CaptchaResponse ==
    /\ pc = "querying"
    /\ \E i \in 1..Len(StatusBodies), d \in Delays :
      LET body == StatusBodies[i] IN
        /\ now' = now + d
        /\ statusRes' = body
        /\ reported' = (reported \/ solved)
        /\ LET e == _validateResponse(body)
               captchaId == trace[Len(trace)].payload.id
           IN  IF e.raised
               THEN Raise(e) /\ UNCHANGED <<decodedCaptcha, trace>>
               ELSE /\ log' = log \o e.warn
                    /\ error' = error
                    /\ LoopOrReturn(captcha(captchaId, body), trace)
    /\ UNCHANGED <<clientVars, method, options, startedAt, uploadRes, solved, unitVars, concVars>>

\* the service's workers solve the challenge it accepted
ServiceSolves ==
    /\ pc \in {"sleeping", "querying"}
    /\ uploadRes = OkWithId
    /\ ~solved
    /\ solved' = TRUE
    /\ UNCHANGED <<clientVars, method, options, pc, startedAt, now, decodedCaptcha,
                   uploadRes, statusRes, log, error, trace, reported, unitVars, concVars>>

\* the calls that run interleaved on one client
Calls == {"first", "second"}

\* no interleaved calls are made
ConcIdle ==
    /\ cpc = [c \in Calls |-> "idle"]
    /\ cmethod = [c \in Calls |-> "decode"]
    /\ frames = [c \in Calls |-> [startedAt |-> 0, decodedCaptcha |-> NoCaptcha]]
    /\ began = [c \in Calls |-> 0]
    /\ wakeAt = [c \in Calls |-> 0]
    /\ sent = [c \in Calls |-> <<>>]
    /\ answers = [c \in Calls |-> Undefined]
    /\ issued = 0
    /\ solvedIds = {}

\* the client as its constructor leaves it, and a call about to start
Init ==
    /\ ConcIdle
    /\ keyIsString \in BOOLEAN
    /\ throwErrors \in BOOLEAN
    /\ throwErrors => keyIsString
    /\ timeout \in {ShortTimeout, LongTimeout}
    /\ polling \in {DefaultPolling, SlowPolling}
    /\ method \in Methods
    /\ \E i \in 1..Len(OptionsOf(method)) : options = OptionsOf(method)[i]
    /\ pc = "ready"
    /\ startedAt = 0
    /\ now = ClockAtStart
    /\ decodedCaptcha = NoCaptcha
    /\ uploadRes = Undefined
    /\ statusRes = Undefined
    /\ log = <<>>
    /\ error = NoMessage
    /\ trace = <<>>
    /\ solved = FALSE
    /\ reported = FALSE
    /\ unitArg = EmptyString
    /\ unitOp = "none"
    /\ unitRet = EmptyString

\* a step of the call itself
CallStep ==
    \/ Decode
    \/ LoadCaptcha
    \/ DecodeRecaptchaV2
    \/ DecodeRecaptchaV3
    \/ DecodeHCaptcha
    \/ UploadResponse
    \/ Wake
    \/ CaptchaResponse

Next == CallStep \/ ServiceSolves

Spec == Init /\ [][Next]_vars

\* the event loop runs every continuation that is ready: timers fire and
\* requests are answered
FairSpec == Spec /\ WF_vars(CallStep)

---------------------------------------------------------------------------
(* Several calls interleaved on one client.  Each invocation of an async   *)
(* method has its own locals (startedAt, decodedCaptcha); the client's     *)
(* fields, the clock and the console are shared.  A call runs from one     *)
(* await to the next without interruption.                                 *)

\* locals kept in one place for all calls, as fields of the client would be
SharedFrame(c) == "first"

\* where the locals of call c live: const startedAt and let decodedCaptcha are
\* declared in the method body, so every invocation has its own
Frame(c) == c

\* the service: the identifier it hands out for the n-th upload it accepts
IdOf(n) == <<"7", Base64Alphabet[53 + n]>>

\* the service: its solution of the challenge with identifier id
AnswerOf(id) == <<"a", id[2]>>

\* the service: the identifiers handed out so far
IssuedIds == {IdOf(n) : n \in 1..issued}

OkBody(field) == <<"O", "K", "|">> \o field

\* the service: the bodies it may answer a status query for id with
StatusBodiesFor(id) ==
    IF id \notin IssuedIds THEN <<UnknownErrorBody>>
    ELSE IF id \in solvedIds THEN <<OkBody(AnswerOf(id))>>
    ELSE <<OkWithEmptyField, CAPCHA_NOT_READY>>

\* the requests of call c that are status queries
QueriesOf(c) == SelectSeq(sent[c], LAMBDA e : e.op = "request" /\ e.action = "res")

\* call c takes a step to position to, with its locals becoming locals
ConcStep(c, to, locals) ==
    /\ cpc' = [cpc EXCEPT ![c] = to]
    /\ frames' = [frames EXCEPT ![Frame(c)] = locals]

\* the while test of the polling loop of call c on captcha
ConcLoopOrReturn(c, result, events) ==
    LET locals == [frames[Frame(c)] EXCEPT !.decodedCaptcha = result]
    IN  IF result.text = EmptyString
        THEN /\ ConcStep(c, "sleeping", locals)
             /\ sent' = [sent EXCEPT ![c] = events \o <<SleepEvent(SleepDuration(cmethod[c]))>>]
             /\ wakeAt' = [wakeAt EXCEPT ![c] = now' + SleepDuration(cmethod[c])]
        ELSE /\ ConcStep(c, "returned", locals)
             /\ sent' = [sent EXCEPT ![c] = events]
             /\ wakeAt' = wakeAt

\* call c is made: startedAt is taken; decode awaits _loadCaptcha, the other
\* methods go on to _upload and send its request
ConcStart(c) ==
    /\ cpc[c] = "ready"
    /\ began' = [began EXCEPT ![c] = now]
    /\ LET locals == [frames[Frame(c)] EXCEPT !.startedAt = now]
       IN  IF cmethod[c] = "decode"
           THEN /\ ConcStep(c, "loading", locals)
                /\ sent' = sent
           ELSE /\ ConcStep(c, "uploading", locals)
                /\ sent' = [sent EXCEPT ![c] = <<RequestEvent("in", "post",
                                UploadArgs([method |-> Lit("userrecaptcha"),
                                            googlekey |-> Googlekey,
                                            pageurl |-> Pageurl,
                                            invisible |-> 0,
                                            enterprise |-> 0]))>>]
    /\ UNCHANGED <<clientVars, soloVars, now, log, unitVars, cmethod, wakeAt,
                   answers, issued, solvedIds>>

\* decode of call c: _loadCaptcha returns the base64 given and _upload sends
\* its request
ConcLoadCaptcha(c) ==
    /\ cpc[c] = "loading"
    /\ ConcStep(c, "uploading", frames[Frame(c)])
    /\ sent' = [sent EXCEPT ![c] = <<RequestEvent("in", "post",
                     UploadArgs([base64 |-> ImageBase64]))>>]
    /\ UNCHANGED <<clientVars, soloVars, now, log, unitVars, cmethod, began, wakeAt,
                   answers, issued, solvedIds>>

\* _upload of call c resumes: the service has accepted the challenge under a
\* new identifier
ConcUploadResponse(c) ==
    /\ cpc[c] = "uploading"
    /\ \E d \in Delays :
        LET body == OkBody(IdOf(issued + 1))
            e == Then(_validateResponse(body), _validateResponse(body))
        IN  /\ now' = now + d
            /\ issued' = issued + 1
            /\ answers' = [answers EXCEPT ![c] = body]
            /\ log' = log \o e.warn
            /\ ConcLoopOrReturn(c, UploadedCaptcha(body), sent[c])
    /\ UNCHANGED <<clientVars, soloVars, unitVars, cmethod, began, solvedIds>>

\* the timer of call c fires: the deadline test, then the timeout or the next
\* status query
ConcWake(c) ==
    /\ cpc[c] = "sleeping"
    /\ Len(QueriesOf(c)) < MaxQueries
    /\ now' = (IF now > wakeAt[c] THEN now ELSE wakeAt[c])
    /\ IF Expired(now', frames[Frame(c)].startedAt)
       THEN LET e == _throwError(CaptchaTimeout)
            IN  /\ sent' = sent
                /\ log' = log \o e.warn
                /\ ConcStep(c, IF e.raised THEN "raised" ELSE "returned",
                            frames[Frame(c)])
       ELSE /\ sent' = [sent EXCEPT ![c] = Append(@,
                            RequestEvent("res", "get",
                                         [id |-> frames[Frame(c)].decodedCaptcha.id,
                                          action |-> Lit("get")]))]
            /\ log' = log
            /\ ConcStep(c, "querying", frames[Frame(c)])
    /\ UNCHANGED <<clientVars, soloVars, unitVars, cmethod, began, wakeAt, answers,
                   issued, solvedIds>>

\* captcha(id) of call c resumes with the service's answer for the identifier
\* asked for; the loop test follows
ConcCaptchaResponse(c) ==
    /\ cpc[c] = "querying"
    /\ LET captchaId == sent[c][Len(sent[c])].payload.id
           bodies == StatusBodiesFor(captchaId)
       IN  \E i \in 1..Len(bodies) :
             LET e == _validateResponse(bodies[i])
             IN  /\ now' = now
                 /\ IF e.raised
                    THEN /\ log' = log
                         /\ ConcStep(c, "raised", frames[Frame(c)])
                         /\ UNCHANGED <<sent, wakeAt>>
                    ELSE /\ log' = log \o e.warn
                         /\ ConcLoopOrReturn(c, captcha(captchaId, bodies[i]), sent[c])
    /\ UNCHANGED <<clientVars, soloVars, unitVars, cmethod, began, answers, issued,
                   solvedIds>>

\* the service's workers solve one of the challenges it accepted
ConcServiceSolves ==
    /\ \E id \in IssuedIds \ solvedIds : solvedIds' = solvedIds \cup {id}
    /\ UNCHANGED <<clientVars, soloVars, now, log, unitVars, cpc, cmethod, frames,
                   began, wakeAt, sent, answers, issued>>

\* a client with a string key, and two calls about to be made on it
ConcInit ==
    /\ keyIsString = TRUE
    /\ throwErrors \in BOOLEAN
    /\ timeout \in {ShortTimeout, LongTimeout}
    /\ polling = DefaultPolling
    /\ method = "decode"
    /\ options = EmptyObject
    /\ pc = "conc"
    /\ startedAt = 0
    /\ now = ClockAtStart
    /\ decodedCaptcha = NoCaptcha
    /\ uploadRes = Undefined
    /\ statusRes = Undefined
    /\ log = <<>>
    /\ error = NoMessage
    /\ trace = <<>>
    /\ solved = FALSE
    /\ reported = FALSE
    /\ unitArg = EmptyString
    /\ unitOp = "none"
    /\ unitRet = EmptyString
    /\ cpc = [c \in Calls |-> "ready"]
    /\ cmethod \in [Calls -> {"decode", "decodeRecaptchaV2"}]
    /\ frames = [c \in Calls |-> [startedAt |-> 0, decodedCaptcha |-> NoCaptcha]]
    /\ began = [c \in Calls |-> 0]
    /\ wakeAt = [c \in Calls |-> 0]
    /\ sent = [c \in Calls |-> <<>>]
    /\ answers = [c \in Calls |-> Undefined]
    /\ issued = 0
    /\ solvedIds = {}

ConcNext ==
    \/ \E c \in Calls : ConcStart(c)
    \/ \E c \in Calls : ConcLoadCaptcha(c)
    \/ \E c \in Calls : ConcUploadResponse(c)
    \/ \E c \in Calls : ConcWake(c)
    \/ \E c \in Calls : ConcCaptchaResponse(c)
    \/ ConcServiceSolves

ConcSpec == ConcInit /\ [][ConcNext]_vars

---------------------------------------------------------------------------
(* The functions on their own: Captcha.coordinates(), _validateResponse    *)
(* and _throwError applied to strings built from a few chunks.             *)

RECURSIVE Flatten(_)
Flatten(chunks) ==
    IF chunks = <<>> THEN <<>> ELSE Head(chunks) \o Flatten(Tail(chunks))

\* every concatenation of at most n of the chunks
Concatenations(chunks, n) ==
    {Flatten(c) : c \in UNION {[1..k -> chunks] : k \in 0..n}}

TextChunks ==
    { <<"x", "=", "1">>, <<"x", "=", "4">>, <<",", "y", "=", "2">>,
      <<"x", "=">>, <<",", "y", "=">>, <<"3">>, <<"0">>, <<";">> }

\* pieces of tile answers, for Captcha.indexes()
IndexChunks ==
    { ClickPrefix, ClickPrefix \o <<"4">>, <<"1">>, <<"0">>, <<"/">>, <<"2", "3">> }

BodyChunks ==
    { <<"O", "K">>, <<"|">>, <<"7">>, ErrorMarker, <<"_", "X">>,
      CAPCHA_NOT_READY, ERROR_ZERO_BALANCE }

\* the messages the client passes to _throwError, apart from the unknown-error one
ClientMessages ==
    { KeyMustBeString, CaptchaTimeout, MissingGooglekey, MissingPageurl,
      MissingSitekey, NoImageData, NotSolvedYet, ZeroBalance, Unsolvable }

UnitInputs ==
    Concatenations(TextChunks, MaxChunks)
        \cup Concatenations(IndexChunks, MaxChunks)
        \cup Concatenations(BodyChunks, MaxBodyChunks)
        \cup ClientMessages

\* captcha.coordinates() on a Captcha whose text is unitArg
UnitCoordinates ==
    /\ unitOp = "none"
    /\ unitOp' = "coordinates"
    /\ unitRet' = coordinates(unitArg)
    /\ UNCHANGED <<clientVars, callVars, unitArg, concVars>>

\* captcha.indexes() on a Captcha whose text is unitArg
UnitIndexes ==
    /\ unitOp = "none"
    /\ unitOp' = "indexes"
    /\ unitRet' = indexes(unitArg)
    /\ UNCHANGED <<clientVars, callVars, unitArg, concVars>>

\* this._validateResponse(unitArg)
UnitValidateResponse ==
    /\ unitOp = "none"
    /\ unitOp' = "_validateResponse"
    /\ unitRet' = _validateResponse(unitArg)
    /\ UNCHANGED <<clientVars, callVars, unitArg, concVars>>

\* this._throwError(unitArg)
UnitThrowError ==
    /\ unitOp = "none"
    /\ unitOp' = "_throwError"
    /\ unitRet' = _throwError(unitArg)
    /\ UNCHANGED <<clientVars, callVars, unitArg, concVars>>

UnitInit ==
    /\ ConcIdle
    /\ keyIsString = TRUE
    /\ throwErrors \in BOOLEAN
    /\ timeout = LongTimeout
    /\ polling = DefaultPolling
    /\ method = "decode"
    /\ options = EmptyObject
    /\ pc = "unit"
    /\ startedAt = 0
    /\ now = ClockAtStart
    /\ decodedCaptcha = NoCaptcha
    /\ uploadRes = Undefined
    /\ statusRes = Undefined
    /\ log = <<>>
    /\ error = NoMessage
    /\ trace = <<>>
    /\ solved = FALSE
    /\ reported = FALSE
    /\ unitArg \in UnitInputs
    /\ unitOp = "none"
    /\ unitRet = EmptyString

UnitNext ==
    \/ UnitCoordinates
    \/ UnitIndexes
    \/ UnitValidateResponse
    \/ UnitThrowError

UnitSpec == UnitInit /\ [][UnitNext]_vars

---------------------------------------------------------------------------
(* The properties.  What they expect is written out here on its own, by    *)
(* positions in the string, not by the operators of the model above.       *)

\* the least element of a non-empty set of integers
Least(S) == CHOOSE i \in S : \A j \in S : i <= j

\* The field of body that follows its first '|', up to the next '|' or the end;
\* Undefined when body has no '|'.
FieldAfterFirstPipe(body) ==
    LET pipes == {i \in 1..Len(body) : body[i] = "|"}
    IN  IF pipes = {} THEN Undefined
        ELSE LET first == Least(pipes)
                 later == {i \in pipes : i > first}
                 last == IF later = {} THEN Len(body) ELSE Least(later) - 1
             IN  [i \in 1..(last - first) |-> body[first + i]]

\* the call holds a Result
HoldsResult == pc \in {"sleeping", "querying", "returned"}

\* the sleep the polling loop of the call is meant to take
ExpectedSleep ==
    IF method = "decode" THEN polling
    ELSE IF polling > 10000 THEN polling ELSE 10000

IsStatusQuery(e) == e.op = "request" /\ e.action = "res"
IsUpload(e) == e.op = "request" /\ e.action = "in"
IsSleep(e) == e.op = "sleep"

\* C1: the text of the Result a call holds or returns is "" in every state in
\* which the service has not yet reported the challenge solved, also right
\* after a status query answered 'not ready'.
C1_TextEmptyUntilSolved ==
    (HoldsResult /\ ~reported) => decodedCaptcha.text = EmptyString

\* C2: a call never returns normally while the challenge is unsolved and the
\* time elapsed since it started is at most the timeout.
C2_ReturnsOnlySolvedOrLate ==
    pc = "returned" => (reported \/ now - startedAt > timeout)

\* C3: when a call wakes from a sleep with more than timeout elapsed, the timeout
\* is surfaced through the error mode: in raise mode the call fails with
\* 'Captcha timeout'; in log mode it logs that message and returns the Result it
\* holds, whose text is "" and whose id is the one of the upload response.  No
\* status query is sent then, nor after the call has ended.
C3_TimeoutSurfaced ==
    [][ /\ (pc = "sleeping" /\ pc' # "sleeping" /\ now' - startedAt > timeout) =>
            /\ trace' = trace
            /\ IF throwErrors
               THEN /\ pc' = "raised"
                    /\ error' = CaptchaTimeout
                    /\ log' = log
               ELSE /\ pc' = "returned"
                    /\ error' = NoMessage
                    /\ log' = Append(log, CaptchaTimeout)
                    /\ decodedCaptcha' = decodedCaptcha
                    /\ decodedCaptcha.text = EmptyString
                    /\ decodedCaptcha.id = FieldAfterFirstPipe(uploadRes)
        /\ Done => (trace' = trace /\ pc' = pc)
      ]_vars

\* C3 happens: in log mode a call that has polled twice returns on the timeout
C3_Witness ==
    /\ pc = "returned"
    /\ ~throwErrors
    /\ log # <<>> /\ log[Len(log)] = CaptchaTimeout
    /\ Len(StatusQueries) >= 2
    /\ decodedCaptcha.id = <<"7", "1">>
    /\ decodedCaptcha.text = EmptyString

\* C4: every call ends, returning or raising, also when the service never
\* reports the challenge solved (every request is answered, the sleep is longer
\* than 0 and the clock advances by at least the time slept).
C4_Terminates == <>Done

\* C4 happens: a call ends though the service never solved the challenge and
\* kept the call polling
C4_Witness ==
    /\ Done
    /\ ~solved
    /\ Len(StatusQueries) >= 2

\* C5: every status query is preceded by exactly one sleep, which follows the
\* upload or the previous status query, and every sleep of the call lasts the
\* polling interval (decode) or max(polling, 10000) ms (the other methods).
C5_SleepBeforeEveryQuery ==
    \A i \in 1..Len(trace) :
        /\ IsSleep(trace[i]) => trace[i].ms = ExpectedSleep
        /\ IsStatusQuery(trace[i]) =>
              /\ i >= 3
              /\ IsSleep(trace[i - 1])
              /\ IsUpload(trace[i - 2]) \/ IsStatusQuery(trace[i - 2])

\* C5 happens: an interactive call of a client polling faster than every 10 s
\* has sent two status queries
C5_Witness ==
    /\ method # "decode"
    /\ polling < 10000
    /\ Len(StatusQueries) >= 2

\* the errors that end a call before its upload
BeforeUploadErrors ==
    {KeyMustBeString, MissingGooglekey, MissingPageurl, MissingSitekey,
     NoImageData, ReadFileFailed, FetchFailed}

\* C6, as claimed: every call sends exactly one upload request.
C6_ExactlyOneUpload == Done => Len(Uploads) = 1

\* C6, amended: a call sends at most one upload request, and exactly one unless
\* it raised before the upload step; the upload comes before every status query,
\* and every status query carries the identifier of the upload response.
C6_SubmitThenPoll ==
    /\ Len(Uploads) <= 1
    /\ (pc \in {"uploading", "sleeping", "querying", "returned"}
           \/ (pc = "raised" /\ error \notin BeforeUploadErrors))
          => Len(Uploads) = 1
    /\ \A i \in 1..Len(trace) :
          IsStatusQuery(trace[i]) =>
              /\ IsUpload(trace[1])
              /\ trace[i].payload.id = FieldAfterFirstPipe(uploadRes)

\* C6 happens: a call has sent its second status query for an accepted upload
C6_Witness ==
    /\ uploadRes = OkWithId
    /\ Len(StatusQueries) >= 2
    /\ pc = "querying"

\* C9: the Result of the upload step has the identifier of the upload response
\* and empty text and apiResponse; the Result of a status query has the id asked
\* for, the raw body as apiResponse and the field after the body's first '|' as
\* text; and only a status query sets the text.
C9_PopulatedIncrementally ==
    [][ /\ (pc = "uploading" /\ pc' = "sleeping") =>
              decodedCaptcha' = [id |-> FieldAfterFirstPipe(uploadRes'),
                                 text |-> EmptyString,
                                 apiResponse |-> EmptyString]
        /\ (pc = "querying" /\ pc' \in {"sleeping", "returned"}) =>
              decodedCaptcha' = [id |-> StatusQueries[Len(StatusQueries)].payload.id,
                                 text |-> FieldAfterFirstPipe(statusRes'),
                                 apiResponse |-> statusRes']
        /\ (decodedCaptcha'.text # decodedCaptcha.text
               /\ decodedCaptcha'.text # EmptyString) => pc = "querying"
        /\ (decodedCaptcha' # decodedCaptcha) => pc \in {"uploading", "querying"}
      ]_vars

\* C9 happens: a call returns the solved Result of the challenge it uploaded
C9_Witness ==
    /\ pc = "returned"
    /\ reported
    /\ decodedCaptcha = [id |-> <<"7", "1">>, text |-> <<"a", "b">>,
                         apiResponse |-> OkWithAnswer]

\* body has the five characters E, R, R, O, R in a row somewhere
HasErrorMarker(body) ==
    \E i \in 1..Len(body) :
        /\ i + 4 <= Len(body)
        /\ body[i] = "E" /\ body[i + 1] = "R" /\ body[i + 2] = "R"
        /\ body[i + 3] = "O" /\ body[i + 4] = "R"

\* body is a code of the error table with a non-empty message
IsTableCode(body) == body \in DOMAIN errors /\ errors[body] # EmptyString

\* body is a success body
IsSuccessBody(body) ==
    ~IsTableCode(body) /\ body # EmptyString /\ ~HasErrorMarker(body)

\* the message _validateResponse has for an error body
MessageFor(body) == IF IsTableCode(body) THEN errors[body] ELSE UnknownError(body)

\* message surfaced through the error mode: raised in raise mode, logged (and
\* false returned) in log mode
SurfacedByMode(effect, message) ==
    IF throwErrors
    THEN effect.raised /\ effect.message = message /\ effect.warn = <<>>
    ELSE ~effect.raised /\ effect.warn = <<message>> /\ effect.ret = FALSE

\* nothing raised and nothing logged, false returned
SurfacedNothing(effect) ==
    ~effect.raised /\ effect.warn = <<>> /\ effect.ret = FALSE

RECURSIVE DecimalValue(_)
DecimalValue(s) ==
    IF Len(s) = 0 THEN 0
    ELSE 10 * DecimalValue(SubSeq(s, 1, Len(s) - 1)) + DigitValue[s[Len(s)]]

AllDigits(t, from, to) == \A i \in from..to : t[i] \in Digits

\* The occurrences of x=<digits>,y=<digits> in t: where each starts, how many
\* digits x has and how many y has (as many as follow).  Two occurrences never
\* overlap, since an occurrence has its only 'x' at its start.
Occurrences(t) ==
    LET n == Len(t)
    IN  {o \in [at : {p \in 1..n : t[p] = "x"}, xn : 1..n, yn : 1..n] :
            /\ o.at + 4 + o.xn + o.yn <= n
            /\ t[o.at + 1] = "="
            /\ AllDigits(t, o.at + 2, o.at + 1 + o.xn)
            /\ t[o.at + 2 + o.xn] = ","
            /\ t[o.at + 3 + o.xn] = "y"
            /\ t[o.at + 4 + o.xn] = "="
            /\ AllDigits(t, o.at + 5 + o.xn, o.at + 4 + o.xn + o.yn)
            /\ (o.at + 5 + o.xn + o.yn > n \/ t[o.at + 5 + o.xn + o.yn] \notin Digits)}

\* C10: coordinates() returns one pair [x, y] for each occurrence of
\* x=<digits>,y=<digits> in the text, in the order they occur, each with the
\* numbers of its occurrence, and the empty list when there is none; every
\* element it returns has two numbers.
C10_Coordinates ==
    unitOp = "coordinates" =>
        LET occ == Occurrences(unitArg)
        IN  /\ Len(unitRet) = Cardinality(occ)
            /\ \A o \in occ :
                  LET k == Cardinality({q \in occ : q.at <= o.at})
                      xs == SubSeq(unitArg, o.at + 2, o.at + 1 + o.xn)
                      ys == SubSeq(unitArg, o.at + 5 + o.xn, o.at + 4 + o.xn + o.yn)
                  IN  unitRet[k] = <<DecimalValue(xs), DecimalValue(ys)>>
            /\ \A i \in 1..Len(unitRet) : Len(unitRet[i]) = 2

\* C10 happens: coordinates() has returned two different pairs
C10_Witness ==
    /\ unitOp = "coordinates"
    /\ unitRet = << <<1, 2>>, <<4, 2>> >>

\* where the first 'click:' of t starts; 0 when t has none
FirstClick(t) ==
    LET at == {p \in 1..Len(t) :
                  /\ p + 5 <= Len(t)
                  /\ t[p] = "c" /\ t[p + 1] = "l" /\ t[p + 2] = "i"
                  /\ t[p + 3] = "c" /\ t[p + 4] = "k" /\ t[p + 5] = ":"}
    IN  IF at = {} THEN 0 ELSE Least(at)

\* t without the six characters of its first 'click:'
WithoutFirstClick(t) ==
    LET c == FirstClick(t)
    IN  IF c = 0 THEN t
        ELSE [i \in 1..(Len(t) - 6) |-> IF i < c THEN t[i] ELSE t[i + 6]]

\* the maximal runs of digits of t: where each starts and ends
DigitRuns(t) ==
    {r \in (1..Len(t)) \X (1..Len(t)) :
        /\ r[1] <= r[2]
        /\ AllDigits(t, r[1], r[2])
        /\ (r[1] = 1 \/ t[r[1] - 1] \notin Digits)
        /\ (r[2] = Len(t) \/ t[r[2] + 1] \notin Digits)}

\* C11: indexes() returns the number of every maximal run of digits of the text
\* without its first 'click:', in the order the runs occur, and the empty list when
\* that text has no digit.
C11_Indexes ==
    unitOp = "indexes" =>
        LET t == WithoutFirstClick(unitArg)
            runs == DigitRuns(t)
        IN  /\ Len(unitRet) = Cardinality(runs)
            /\ \A r \in runs :
                  unitRet[Cardinality({q \in runs : q[1] <= r[1]})]
                      = DecimalValue(SubSeq(t, r[1], r[2]))

\* C11 happens: indexes() has taken out the first of two 'click:' and so joined
\* the digits on its two sides, and only those
C11_Witness ==
    /\ unitOp = "indexes"
    /\ unitArg = <<"1">> \o ClickPrefix \o <<"4">> \o ClickPrefix \o <<"4">>
    /\ unitRet = <<14, 4>>

\* C12: of calls interleaved on one client, each carries in every status query
\* the identifier of its own upload response, ends its polling on the timeout
\* exactly when more than timeout has passed since it was made itself, and
\* returns a Result with its own identifier and, if solved, the solution of its
\* own challenge; its locals change only in its own steps.
C12_CallsIndependent ==
    [][ \A c \in Calls :
          LET own == FieldAfterFirstPipe(answers'[c])
              result == frames'[c].decodedCaptcha
          IN  /\ \A i \in 1..Len(sent'[c]) :
                    IsStatusQuery(sent'[c][i]) => sent'[c][i].payload.id = own
              /\ (cpc[c] = "sleeping" /\ cpc'[c] # "sleeping") =>
                    (cpc'[c] \in {"returned", "raised"} <=> now' - began[c] > timeout)
              /\ cpc'[c] = "returned" =>
                    /\ result.id = own
                    /\ result.text \notin {EmptyString, Undefined} =>
                          result.text = AnswerOf(own)
              /\ frames'[c] # frames[c] => cpc'[c] # cpc[c]
      ]_vars

\* C12 happens: two calls, the second made while the first was polling, have
\* both returned the solution of their own challenge
C12_Witness ==
    /\ \A c \in Calls : cpc[c] = "returned"
    /\ began["first"] < began["second"]
    /\ answers["first"] = OkBody(IdOf(1))
    /\ answers["second"] = OkBody(IdOf(2))
    /\ Len(QueriesOf("first")) >= 2
    /\ frames["first"].decodedCaptcha.text = AnswerOf(IdOf(1))
    /\ frames["second"].decodedCaptcha.text = AnswerOf(IdOf(2))

\* C13: when a call wakes from a sleep it sends a status query if and only if
\* at most timeout has passed since the call was made (image loading and upload
\* included): it still polls when exactly timeout has passed, and sends no
\* query when more has.
C13_StrictDeadline ==
    [][ (pc = "sleeping" /\ pc' # "sleeping") =>
            LET elapsed == now' - ClockAtStart
            IN  /\ (elapsed <= timeout) <=>
                       /\ pc' = "querying"
                       /\ Len(trace') = Len(trace) + 1
                       /\ IsStatusQuery(trace'[Len(trace')])
                /\ (elapsed > timeout) <=> (Done' /\ trace' = trace)
      ]_vars

\* C13 happens: a call has woken from a sleep shorter than timeout when exactly
\* timeout had passed since it was made, and polls
C13_Witness ==
    /\ pc = "querying"
    /\ now - ClockAtStart = timeout
    /\ IsSleep(trace[Len(trace) - 1])
    /\ trace[Len(trace) - 1].ms < timeout

\* the call ended on the timeout: it raised 'Captcha timeout', or logged it last
\* and returned
TimeoutOutcome ==
    \/ pc = "raised" /\ error = CaptchaTimeout
    \/ pc = "returned" /\ log # <<>> /\ log[Len(log)] = CaptchaTimeout

\* C14, as claimed: a call sends at most floor(timeout / interval) status
\* queries, and when timeout < interval every call ends on the timeout.
C14_AlwaysTimesOut ==
    /\ Len(StatusQueries) <= timeout \div ExpectedSleep
    /\ (Done /\ timeout < ExpectedSleep) => TimeoutOutcome

\* C14, amended: a call sends at most floor(timeout / interval) status queries;
\* when timeout < interval, a call that entered its polling loop sends none and
\* ends on the timeout, solved or not, and a call that did not enter it has
\* raised another error.
C14_QueryBound ==
    /\ Len(StatusQueries) <= timeout \div ExpectedSleep
    /\ (Done /\ timeout < ExpectedSleep) =>
          /\ StatusQueries = <<>>
          /\ IF \E i \in 1..Len(trace) : IsSleep(trace[i])
             THEN TimeoutOutcome
             ELSE pc = "raised" /\ error # CaptchaTimeout

\* C14 happens: a call has sent as many status queries as the bound allows,
\* more than one
C14_Witness ==
    /\ timeout \div ExpectedSleep >= 2
    /\ Len(StatusQueries) = timeout \div ExpectedSleep
    /\ Done

\* the upload was answered with an error body: an empty one, or one with the
\* marker
UploadRejected(body) == body = EmptyString \/ HasErrorMarker(body)

\* C15, as claimed: in log mode a call whose upload was rejected sends a status
\* query all the same.
C15_AlwaysPollsAfterRejection ==
    (Done /\ ~throwErrors /\ UploadRejected(uploadRes)) => StatusQueries # <<>>

\* C15, amended: in log mode a rejected upload leaves the call with a Result
\* of empty text and no identifier, and the call sleeps; when it wakes it sends,
\* unless more than timeout has passed, a status query without an identifier.
\* In raise mode the rejected upload raises its error, and no sleep or status
\* query follows.
C15_RejectedUpload ==
    [][ /\ (pc = "uploading" /\ UploadRejected(uploadRes')) =>
              IF throwErrors
              THEN /\ pc' = "raised"
                   /\ error' \notin {NoMessage, CaptchaTimeout}
                   /\ trace' = trace
                   /\ decodedCaptcha' = decodedCaptcha
              ELSE /\ pc' = "sleeping"
                   /\ decodedCaptcha' = [id |-> Undefined, text |-> EmptyString,
                                         apiResponse |-> EmptyString]
                   /\ Len(trace') = Len(trace) + 1
                   /\ IsSleep(trace'[Len(trace')])
        /\ (UploadRejected(uploadRes) /\ pc = "sleeping" /\ pc' # "sleeping") =>
              IF now' - ClockAtStart <= timeout
              THEN /\ pc' = "querying"
                   /\ IsStatusQuery(trace'[Len(trace')])
                   /\ trace'[Len(trace')].payload.id = Undefined
              ELSE TimeoutOutcome' /\ trace' = trace
        /\ (UploadRejected(uploadRes) /\ throwErrors) => trace' = trace
      ]_vars

\* C15 happens: in log mode a call whose upload the service rejected for lack
\* of funds has sent a status query without an identifier
C15_Witness ==
    /\ ~throwErrors
    /\ uploadRes = ERROR_ZERO_BALANCE
    /\ pc = "querying"
    /\ trace[Len(trace)].payload.id = Undefined

\* the caller's options lack k, or have the empty string for it
Lacks(k) == k \notin DOMAIN options \/ options[k] = EmptyString

\* the message for the first required input the options lack, NoMessage if none
FirstMissing ==
    IF method = "decode"
    THEN IF Lacks("base64") /\ "buffer" \notin DOMAIN options
            /\ Lacks("path") /\ Lacks("url")
         THEN NoImageData ELSE NoMessage
    ELSE IF method = "decodeHCaptcha" /\ Lacks("sitekey") THEN MissingSitekey
    ELSE IF method # "decodeHCaptcha" /\ Lacks("googlekey") THEN MissingGooglekey
    ELSE IF Lacks("pageurl") THEN MissingPageurl
    ELSE NoMessage

\* the call is past its checks of the input
PastInputChecks == pc \notin {"ready", "loading"}

\* C16: a call that lacks a required input raises, in raise mode, the message
\* of the first missing input before any request is sent; in log mode it logs
\* that message, sends its upload request all the same (decode without a body
\* field) and, once the upload is answered, is in its polling loop.
C16_MissingInput ==
    (FirstMissing # NoMessage /\ PastInputChecks) =>
        IF throwErrors
        THEN pc = "raised" /\ error = FirstMissing /\ trace = <<>>
        ELSE /\ \E i \in 1..Len(log) : log[i] = FirstMissing
             /\ pc # "raised"
             /\ Len(Uploads) = 1
             /\ IsUpload(trace[1])
             /\ method = "decode" => "body" \notin DOMAIN trace[1].payload
             /\ pc # "uploading" => (Len(trace) >= 2 /\ IsSleep(trace[2]))

\* C16 happens: in log mode decode was called without any image, and the call
\* polls for the challenge it uploaded without a body
C16_Witness ==
    /\ ~throwErrors
    /\ method = "decode"
    /\ options = EmptyObject
    /\ pc = "querying"
    /\ "body" \notin DOMAIN trace[1].payload
    /\ log[Len(log)] = NoImageData

\* the console got exactly n more warnings, all the same
LoggedSame(n) ==
    /\ Len(log') = Len(log) + n
    /\ SubSeq(log', 1, Len(log)) = log
    /\ \A i \in 1..n : log'[Len(log) + i] = log'[Len(log) + 1]

\* C17: a response body is validated once, the upload response twice: in log
\* mode an error body answering a status query gives one warning and an error
\* body answering the upload two warnings with the same message; in raise mode
\* the error upload response raises, nothing is logged and no Result is built;
\* a body that is no error gives no warning.
C17_UploadValidatedTwice ==
    [][ /\ (pc = "uploading" /\ pc' # "uploading") =>
              IF ~UploadRejected(uploadRes') THEN log' = log
              ELSE IF throwErrors
              THEN /\ pc' = "raised"
                   /\ error' \notin {NoMessage, CaptchaTimeout}
                   /\ log' = log
                   /\ decodedCaptcha' = NoCaptcha
              ELSE /\ LoggedSame(2)
                   /\ pc' = "sleeping"
                   /\ decodedCaptcha' # NoCaptcha
        /\ (pc = "querying" /\ pc' # "querying") =>
              IF ~UploadRejected(statusRes') THEN log' = log
              ELSE IF throwErrors
              THEN /\ pc' = "raised"
                   /\ error' \notin {NoMessage, CaptchaTimeout}
                   /\ log' = log
              ELSE LoggedSame(1) /\ pc' # "raised"
      ]_vars

\* C17 happens: in log mode the upload was rejected for lack of funds and a
\* status query was answered with an error, which left two equal warnings and
\* then one
C17_Witness ==
    /\ ~throwErrors
    /\ uploadRes = ERROR_ZERO_BALANCE
    /\ statusRes = ERROR_CAPTCHA_UNSOLVABLE
    /\ log = <<ZeroBalance, ZeroBalance, Unsolvable>>

\* the base64 data decode uploads for the options: what the caller gave or what
\* the image bytes 77, 97 encode to; EmptyString without an image
ExpectedBody ==
    IF method # "decode" THEN EmptyString
    ELSE IF ~Lacks("base64") THEN options.base64
    ELSE IF "buffer" \in DOMAIN options \/ ~Lacks("path") \/ ~Lacks("url")
    THEN <<"T", "W", "E", "=">>
    ELSE EmptyString

\* the method field of the upload of the call
ExpectedMethod ==
    IF method = "decodeHCaptcha" THEN Lit("hcaptcha")
    ELSE IF method # "decode" THEN Lit("userrecaptcha")
    ELSE IF "method" \in DOMAIN options THEN options.method
    ELSE Lit("base64")

\* C18: every request carries the key of the client and soft_id 2386, whatever
\* the caller's options hold under these names; every upload carries a method
\* field ('base64' when decode's options have none), a body field exactly when
\* there is base64 data, and none of the fields base64, buffer, path and url.
C18_Payload ==
    \A i \in 1..Len(trace) :
        trace[i].op = "request" =>
            LET payload == trace[i].payload
            IN  /\ {"key", "soft_id"} \subseteq DOMAIN payload
                /\ payload.key = (IF keyIsString THEN <<"k", "e", "y">> ELSE Undefined)
                /\ payload.soft_id = 2386
                /\ IsUpload(trace[i]) =>
                      /\ "method" \in DOMAIN payload
                      /\ payload.method = ExpectedMethod
                      /\ ("body" \in DOMAIN payload) <=> (ExpectedBody # EmptyString)
                      /\ "body" \in DOMAIN payload => payload.body = ExpectedBody
                      /\ DOMAIN payload \cap {"base64", "buffer", "path", "url"} = {}

\* C18 happens: decode was called with options that have a key and a soft_id
\* of their own, and the upload went out with the client's
C18_Witness ==
    /\ method = "decode"
    /\ {"key", "soft_id"} \subseteq DOMAIN options
    /\ pc = "uploading"
    /\ trace[1].payload.key # options.key
    /\ trace[1].payload.soft_id # options.soft_id
    /\ trace[1].payload.body = ImageBase64

===========================================================================
